---- MODULE Spec2Model ----
(***************************************************************************)
(* Model of the alarm repository: the siren program (main.py: set_up, arm, *)
(* monitor) and the service supervisor (controller.py: set_up, control),   *)
(* with the shared SIGTERM handler of common.py.                           *)
(*                                                                         *)
(* One behaviour models one run of one of the two programs (prog).  Each   *)
(* program is single-threaded; pc is the statement it is about to execute. *)
(* A KeyboardInterrupt or a SIGTERM is delivered between two statements.   *)
(* Times are in hundredths of a second.                                    *)
(***************************************************************************)
EXTENDS Integers, Sequences, FiniteSets

VARIABLES
    prog,           \* "siren" (main.py) or "controller" (controller.py)
    backend,        \* which GPIO module the import picked: "RPi" or "Mock"
    pc,             \* next statement; "returned" | "exited" | "crashed" when over
    port,           \* GPIO port: "unconfigured" | "configured" | "released"
    exitCode,       \* -1 while running, then the process's exit status
    cuRet,          \* whose except handler runs clean_up: "flash" | "monitor" | "control"
    relay,          \* level last written to RELAY_PIN
    led,            \* level last written to LED_PIN
    interval,       \* flash(): interval argument
    duration,       \* flash(): duration argument (meaningful when timed)
    timed,          \* flash(): duration is not None
    elapsed,        \* flash(): time.time() - start_time
    caller,         \* flash(): called from "arm" or from "detect"
    service_running,\* control(): the cached state
    svcActive,      \* the alarm service's actual state (systemd)
    pin_state,      \* control(): the last value read from ALARM_CONTROL_PIN
    \* ---- history variables (observation only, never read by the program)
    interrupts,     \* KeyboardInterrupts delivered so far
    termAt,         \* pc at which SIGTERM was delivered, "none" before
    cleanups,       \* invocations of clean_up
    releases,       \* GPIO.cleanup() calls
    cuFault,        \* a clean_up invocation raised
    intrBlocking,   \* a KeyboardInterrupt was delivered at a blocking point of the siren loop
    ranAfter,       \* a flash / wait / set_alarm step ran after such an interrupt
    intrOutside,    \* a KeyboardInterrupt was delivered where no handler catches it
    phase,          \* siren phase in progress: "none" | "arm" | "wait" | "degraded" | "trigger"
    prevPhase,      \* the phase before it
    ops,            \* sleeps and pin writes of the current (last) set_alarm call
    det,            \* what the current (last) detect_mouse_movement call did
    reads,          \* pin reads done by control()
    starts,         \* start_service invocations
    stops,          \* stop_service invocations
    lowHigh,        \* LOW->HIGH transitions between consecutive reads, seen while STOPPED
    highLow,        \* HIGH->LOW transitions between consecutive reads, seen while RUNNING
    prevPin,        \* the read before the last one ("NONE" at first)
    initRunning,    \* the state queried once at startup
    firstPin,       \* the first pin reading ("NONE" before it)
    iter,           \* what the current (last) iteration of control() did
    assertFailed,   \* a start/stop verification failed
    toggles,        \* complete HIGH-then-LOW toggles of the current timed flash
    lateWrite,      \* a GPIO.output call was made on a port already released
    pinLog,         \* the pin readings of control(), in order
    sleepLog,       \* the poll sleeps of control(), in order
    confirmed,      \* the last start_service / stop_service that returned: "none", "start", "stop"
    rawStatus,      \* a raw os.system status handed to alarm_service_running
    reported,       \* what alarm_service_running answered for it: "none" | "running" | "stopped"
    externals       \* changes of the alarm service's state that the controller did not command

procVars == <<prog, backend, pc, port, exitCode, cuRet>>
procVars_but_pc == <<prog, backend, port, exitCode, cuRet>>
sirenVars == <<relay, led, interval, duration, timed, elapsed, caller>>
ctlVars == <<service_running, svcActive, pin_state>>
sigHist == <<interrupts, termAt, cleanups, releases, cuFault, intrBlocking, ranAfter, intrOutside>>
sirenHist == <<phase, prevPhase, ops, det>>
ctlHist == <<reads, starts, stops, lowHigh, highLow, prevPin, initRunning, firstPin, iter, assertFailed>>
obsVars == <<toggles, lateWrite, pinLog, sleepLog, confirmed>>
unitVars == <<rawStatus, reported>>
envHist == <<externals>>
vars == <<procVars, sirenVars, ctlVars, sigHist, sirenHist, ctlHist, obsVars, unitVars, envHist>>

\* ---- bounds of the model
MaxInterrupts == 2
MaxReads == 4
MaxEvents == 3
\* flash(interval, duration) alone: the largest interval and duration tried
MaxInterval == 3
MaxDuration == 12
\* alarm_service_running alone: the largest raw status tried (16 bits)
MaxRawStatus == 65535
\* the controller left running: the most changes the alarm service makes on its own
MaxExternal == 2

\* ---- program constants (hundredths of a second)
ALARM_DURATION == 500
ALARM_SNOOZE == 100
FAST_FLASH_TIME == 25
SLOW_FLASH_TIME == 65
ARM_TIME == 3000
IDLE_SLEEP == 500
STEADY_SLEEP == 25
SETTLE_SLEEP == 100
\* raw os.system results of 'systemctl status': unit active, unit not active
STATUS_RUNNING == 0
STATUS_NOT_RUNNING == 256

Levels == {"LOW", "HIGH"}

NoDet == [absent |-> FALSE, flashed |-> FALSE, fInterval |-> 0, fTimed |-> FALSE,
          waited |-> FALSE, returned |-> FALSE, events |-> <<>>]

\* values an input event may carry (a relative motion is signed)
EventValues == {-1, 0, 1}
NoIter == [state |-> FALSE, pin |-> "NONE", prev |-> "NONE", action |-> "none",
           sleep |-> 0, settle |-> 0, done |-> FALSE]

Sleep(t) == [op |-> "sleep", pin |-> "none", level |-> "none", secs |-> t]
Write(p, l) == [op |-> "write", pin |-> p, level |-> l, secs |-> 0]

\* ------------------------------------------------------------------------
\* GPIO back end.  main.py and controller.py import RPi.GPIO and fall back to
\* Mock.GPIO.  RPi.GPIO refuses (RuntimeError) a write to a channel that is
\* not set up, which is every channel before set_up and after GPIO.cleanup();
\* Mock.GPIO accepts every write.  GPIO.cleanup() itself never raises.
WriteOk == port = "configured" \/ backend = "Mock"

Alive == exitCode = -1

Init ==
    /\ prog \in {"siren", "controller"}
    /\ backend \in {"RPi", "Mock"}
    /\ pc = IF prog = "siren" THEN "set_up" ELSE "ctl_set_up"
    /\ port = "unconfigured"
    /\ exitCode = -1
    /\ cuRet = "none"
    /\ relay = "LOW" /\ led = "LOW"
    /\ interval = 0 /\ duration = 0 /\ timed = FALSE /\ elapsed = 0 /\ caller = "none"
    /\ service_running = FALSE
    /\ svcActive \in (IF prog = "controller" THEN BOOLEAN ELSE {FALSE})
    /\ pin_state = "NONE"
    /\ interrupts = 0 /\ termAt = "none" /\ cleanups = 0 /\ releases = 0
    /\ cuFault = FALSE /\ intrBlocking = FALSE /\ ranAfter = FALSE /\ intrOutside = FALSE
    /\ phase = "none" /\ prevPhase = "none" /\ ops = <<>> /\ det = NoDet
    /\ reads = 0 /\ starts = 0 /\ stops = 0 /\ lowHigh = 0 /\ highLow = 0
    /\ prevPin = "NONE" /\ initRunning = FALSE /\ firstPin = "NONE"
    /\ iter = NoIter /\ assertFailed = FALSE
    /\ toggles = 0 /\ lateWrite = FALSE /\ pinLog = <<>> /\ sleepLog = <<>>
    /\ confirmed = "none"
    /\ rawStatus = 0 /\ reported = "none"
    /\ externals = 0

\* An uncaught exception ends the process with a traceback.
Crash(code) == pc' = "crashed" /\ exitCode' = code

\* A loop step of the siren program ran: remember if it ran after an interrupt.
Ran == ranAfter' = (ranAfter \/ intrBlocking)
StepHist == Ran /\ UNCHANGED <<interrupts, termAt, cleanups, releases, cuFault, intrBlocking, intrOutside>>

\* ======================= siren program (main.py) =========================

\* main.set_up: configure both outputs, initially LOW.
set_up ==
    /\ pc = "set_up"
    /\ port' = "configured" /\ relay' = "LOW" /\ led' = "LOW"
    /\ pc' = "arm"
    /\ UNCHANGED <<prog, backend, exitCode, cuRet, interval, duration, timed, elapsed, caller>>
    /\ UNCHANGED <<ctlVars, sigHist, sirenHist, ctlHist>>
    /\ UNCHANGED <<obsVars, unitVars, envHist>>

\* main.arm, first statement: flash(FAST_FLASH_TIME, ARM_TIME).
arm ==
    /\ pc = "arm"
    /\ pc' = "flash_high"
    /\ interval' = FAST_FLASH_TIME /\ duration' = ARM_TIME /\ timed' = TRUE
    /\ elapsed' = 0 /\ caller' = "arm"
    /\ phase' = "arm" /\ prevPhase' = phase
    /\ UNCHANGED <<prog, backend, port, exitCode, cuRet, relay, led, ops, det>>
    /\ UNCHANGED <<ctlVars, sigHist, ctlHist>>
    /\ toggles' = 0
    /\ UNCHANGED <<lateWrite, pinLog, sleepLog, confirmed, unitVars, envHist>>

\* flash returns to its caller: arm goes on to latch the indicator,
\* detect_mouse_movement returns to monitor, which calls set_alarm.
ReturnFromFlash ==
    IF caller = "arm"
    THEN pc' = "arm_latch" /\ UNCHANGED sirenHist
    ELSE /\ pc' = "alarm_snooze"
         /\ phase' = "trigger" /\ prevPhase' = phase /\ ops' = <<>>
         /\ det' = [det EXCEPT !.returned = TRUE]

\* flash: GPIO.output(LED_PIN, GPIO.HIGH)
flash_high ==
    /\ pc = "flash_high"
    /\ IF WriteOk
       THEN led' = "HIGH" /\ pc' = "flash_sleep1" /\ UNCHANGED exitCode
       ELSE Crash(1) /\ UNCHANGED led
    /\ StepHist
    /\ UNCHANGED <<prog, backend, port, cuRet, relay, interval, duration, timed, elapsed, caller>>
    /\ UNCHANGED <<ctlVars, sirenHist, ctlHist>>
    /\ lateWrite' = (lateWrite \/ port = "released")
    /\ UNCHANGED <<toggles, pinLog, sleepLog, confirmed, unitVars, envHist>>

\* Mutant of flash_sleep1: the elapsed-time test also follows the first sleep.
flash_sleep1_Test ==
    /\ pc = "flash_sleep1"
    /\ elapsed' = IF timed THEN elapsed + interval ELSE elapsed
    /\ IF timed /\ elapsed' >= duration
       THEN ReturnFromFlash
       ELSE pc' = "flash_low" /\ UNCHANGED sirenHist
    /\ StepHist
    /\ UNCHANGED <<prog, backend, port, exitCode, cuRet, relay, led, interval, duration, timed, caller>>
    /\ UNCHANGED <<ctlVars, ctlHist>>
    /\ UNCHANGED <<obsVars, unitVars, envHist>>

\* flash: time.sleep(interval) after the HIGH edge
flash_sleep1 ==
    /\ pc = "flash_sleep1"
    /\ pc' = "flash_low"
    /\ elapsed' = IF timed THEN elapsed + interval ELSE elapsed
    /\ StepHist
    /\ UNCHANGED <<prog, backend, port, exitCode, cuRet, relay, led, interval, duration, timed, caller>>
    /\ UNCHANGED <<ctlVars, sirenHist, ctlHist>>
    /\ UNCHANGED <<obsVars, unitVars, envHist>>

\* flash: GPIO.output(LED_PIN, GPIO.LOW)
flash_low ==
    /\ pc = "flash_low"
    /\ IF WriteOk
       THEN led' = "LOW" /\ pc' = "flash_sleep2" /\ UNCHANGED exitCode
       ELSE Crash(1) /\ UNCHANGED led
    /\ StepHist
    /\ UNCHANGED <<prog, backend, port, cuRet, relay, interval, duration, timed, elapsed, caller>>
    /\ UNCHANGED <<ctlVars, sirenHist, ctlHist>>
    /\ toggles' = IF timed /\ WriteOk THEN toggles + 1 ELSE toggles
    /\ lateWrite' = (lateWrite \/ port = "released")
    /\ UNCHANGED <<pinLog, sleepLog, confirmed, unitVars, envHist>>

\* flash: time.sleep(interval) after the LOW edge, then the elapsed-time test
flash_sleep2 ==
    /\ pc = "flash_sleep2"
    /\ elapsed' = IF timed THEN elapsed + interval ELSE elapsed
    /\ IF timed /\ elapsed' >= duration
       THEN ReturnFromFlash
       ELSE pc' = "flash_high" /\ UNCHANGED sirenHist
    /\ StepHist
    /\ UNCHANGED <<prog, backend, port, exitCode, cuRet, relay, led, interval, duration, timed, caller>>
    /\ UNCHANGED <<ctlVars, ctlHist>>
    /\ UNCHANGED <<obsVars, unitVars, envHist>>

\* Mutant of arm_latch: arm ends without its last write.
arm_latch_NoWrite ==
    /\ pc = "arm_latch"
    /\ pc' = "detect_open"
    /\ UNCHANGED <<prog, backend, port, exitCode, cuRet, relay, led>>
    /\ UNCHANGED <<interval, duration, timed, elapsed, caller>>
    /\ UNCHANGED <<ctlVars, sigHist, sirenHist, ctlHist>>
    /\ UNCHANGED <<obsVars, unitVars, envHist>>

\* arm, last statement: GPIO.output(LED_PIN, GPIO.HIGH); then monitor() starts.
arm_latch ==
    /\ pc = "arm_latch"
    /\ IF WriteOk
       THEN led' = "HIGH" /\ pc' = "detect_open" /\ UNCHANGED exitCode
       ELSE Crash(1) /\ UNCHANGED led
    /\ UNCHANGED <<prog, backend, port, cuRet, relay, interval, duration, timed, elapsed, caller>>
    /\ UNCHANGED <<ctlVars, sigHist, sirenHist, ctlHist>>
    /\ lateWrite' = (lateWrite \/ port = "released")
    /\ UNCHANGED <<toggles, pinLog, sleepLog, confirmed, unitVars, envHist>>

\* Mutant of detect_open: FileNotFoundError is not caught.
detect_open_Raises ==
    /\ pc = "detect_open"
    /\ \E present \in BOOLEAN :
         IF present
         THEN /\ pc' = "wait_event"
              /\ det' = NoDet
              /\ phase' = "wait" /\ prevPhase' = phase
              /\ UNCHANGED exitCode
         ELSE /\ Crash(1)
              /\ det' = [NoDet EXCEPT !.absent = TRUE]
              /\ phase' = "degraded" /\ prevPhase' = phase
    /\ StepHist
    /\ UNCHANGED <<prog, backend, port, cuRet, relay, led, ops>>
    /\ UNCHANGED <<interval, duration, timed, elapsed, caller>>
    /\ UNCHANGED <<ctlVars, ctlHist>>
    /\ toggles' = IF pc' = "flash_high" THEN 0 ELSE toggles
    /\ UNCHANGED <<lateWrite, pinLog, sleepLog, confirmed, unitVars, envHist>>

\* detect_mouse_movement: open the device; when the path is absent, flash(SLOW_FLASH_TIME).
detect_open ==
    /\ pc = "detect_open"
    /\ \E present \in BOOLEAN :
         IF present
         THEN /\ pc' = "wait_event"
              /\ det' = NoDet
              /\ phase' = "wait" /\ prevPhase' = phase
              /\ UNCHANGED <<interval, duration, timed, elapsed, caller>>
         ELSE /\ pc' = "flash_high"
              /\ interval' = SLOW_FLASH_TIME /\ duration' = 0 /\ timed' = FALSE
              /\ elapsed' = 0 /\ caller' = "detect"
              /\ det' = [NoDet EXCEPT !.absent = TRUE, !.flashed = TRUE,
                                      !.fInterval = SLOW_FLASH_TIME, !.fTimed = FALSE]
              /\ phase' = "degraded" /\ prevPhase' = phase
    /\ StepHist
    /\ UNCHANGED <<prog, backend, port, exitCode, cuRet, relay, led, ops>>
    /\ UNCHANGED <<ctlVars, ctlHist>>
    /\ toggles' = IF pc' = "flash_high" THEN 0 ELSE toggles
    /\ UNCHANGED <<lateWrite, pinLog, sleepLog, confirmed, unitVars, envHist>>

\* Mutant of wait_event: the test of event.value is lost, any event ends the wait.
wait_event_AnyEvent ==
    /\ pc = "wait_event"
    /\ Len(det.events) < MaxEvents
    /\ \E value \in EventValues :
         /\ pc' = "alarm_snooze"
         /\ det' = [det EXCEPT !.waited = TRUE, !.returned = TRUE,
                               !.events = Append(@, value)]
         /\ phase' = "trigger" /\ prevPhase' = phase /\ ops' = <<>>
    /\ StepHist
    /\ UNCHANGED <<prog, backend, port, exitCode, cuRet>>
    /\ UNCHANGED <<sirenVars, ctlVars, ctlHist>>
    /\ UNCHANGED <<obsVars, unitVars, envHist>>

\* detect_mouse_movement: one event of dev.read_loop(); a non-zero value ends the wait
\* and monitor calls set_alarm.
wait_event ==
    /\ pc = "wait_event"
    /\ Len(det.events) < MaxEvents
    /\ \E value \in EventValues :
         IF value /= 0
         THEN /\ pc' = "alarm_snooze"
              /\ det' = [det EXCEPT !.waited = TRUE, !.returned = TRUE,
                                    !.events = Append(@, value)]
              /\ phase' = "trigger" /\ prevPhase' = phase /\ ops' = <<>>
         ELSE /\ pc' = "wait_event"
              /\ det' = [det EXCEPT !.waited = TRUE, !.events = Append(@, value)]
              /\ UNCHANGED <<phase, prevPhase, ops>>
    /\ StepHist
    /\ UNCHANGED <<prog, backend, port, exitCode, cuRet>>
    /\ UNCHANGED <<sirenVars, ctlVars, ctlHist>>
    /\ UNCHANGED <<obsVars, unitVars, envHist>>

\* Mutant of alarm_snooze: the snooze sleeps the alarm duration.
alarm_snooze_Long ==
    /\ pc = "alarm_snooze"
    /\ pc' = "alarm_high"
    /\ ops' = Append(ops, Sleep(ALARM_DURATION))
    /\ StepHist
    /\ UNCHANGED <<prog, backend, port, exitCode, cuRet, phase, prevPhase, det>>
    /\ UNCHANGED <<sirenVars, ctlVars, ctlHist>>
    /\ UNCHANGED <<obsVars, unitVars, envHist>>

\* set_alarm: time.sleep(ALARM_SNOOZE)
alarm_snooze ==
    /\ pc = "alarm_snooze"
    /\ pc' = "alarm_high"
    /\ ops' = Append(ops, Sleep(ALARM_SNOOZE))
    /\ StepHist
    /\ UNCHANGED <<prog, backend, port, exitCode, cuRet, phase, prevPhase, det>>
    /\ UNCHANGED <<sirenVars, ctlVars, ctlHist>>
    /\ UNCHANGED <<obsVars, unitVars, envHist>>

\* set_alarm: GPIO.output(RELAY_PIN, GPIO.HIGH)
alarm_high ==
    /\ pc = "alarm_high"
    /\ IF WriteOk
       THEN /\ relay' = "HIGH" /\ pc' = "alarm_duration"
            /\ ops' = Append(ops, Write("RELAY", "HIGH"))
            /\ UNCHANGED exitCode
       ELSE Crash(1) /\ UNCHANGED <<relay, ops>>
    /\ StepHist
    /\ UNCHANGED <<prog, backend, port, cuRet, led, interval, duration, timed, elapsed, caller>>
    /\ UNCHANGED <<phase, prevPhase, det>>
    /\ UNCHANGED <<ctlVars, ctlHist>>
    /\ lateWrite' = (lateWrite \/ port = "released")
    /\ UNCHANGED <<toggles, pinLog, sleepLog, confirmed, unitVars, envHist>>

\* set_alarm: time.sleep(ALARM_DURATION)
alarm_duration ==
    /\ pc = "alarm_duration"
    /\ pc' = "alarm_low"
    /\ ops' = Append(ops, Sleep(ALARM_DURATION))
    /\ StepHist
    /\ UNCHANGED <<prog, backend, port, exitCode, cuRet, phase, prevPhase, det>>
    /\ UNCHANGED <<sirenVars, ctlVars, ctlHist>>
    /\ UNCHANGED <<obsVars, unitVars, envHist>>

\* Mutant of alarm_low: monitor's loop re-arms after each trigger.
alarm_low_Rearm ==
    /\ pc = "alarm_low"
    /\ IF WriteOk
       THEN /\ relay' = "LOW" /\ pc' = "arm"
            /\ ops' = Append(ops, Write("RELAY", "LOW"))
            /\ UNCHANGED exitCode
       ELSE Crash(1) /\ UNCHANGED <<relay, ops>>
    /\ StepHist
    /\ UNCHANGED <<prog, backend, port, cuRet, led, interval, duration, timed, elapsed, caller>>
    /\ UNCHANGED <<phase, prevPhase, det>>
    /\ UNCHANGED <<ctlVars, ctlHist>>
    /\ lateWrite' = (lateWrite \/ port = "released")
    /\ UNCHANGED <<toggles, pinLog, sleepLog, confirmed, unitVars, envHist>>

\* set_alarm: GPIO.output(RELAY_PIN, GPIO.LOW); monitor's loop calls
\* detect_mouse_movement again.
alarm_low ==
    /\ pc = "alarm_low"
    /\ IF WriteOk
       THEN /\ relay' = "LOW" /\ pc' = "detect_open"
            /\ ops' = Append(ops, Write("RELAY", "LOW"))
            /\ UNCHANGED exitCode
       ELSE Crash(1) /\ UNCHANGED <<relay, ops>>
    /\ StepHist
    /\ UNCHANGED <<prog, backend, port, cuRet, led, interval, duration, timed, elapsed, caller>>
    /\ UNCHANGED <<phase, prevPhase, det>>
    /\ UNCHANGED <<ctlVars, ctlHist>>
    /\ lateWrite' = (lateWrite \/ port = "released")
    /\ UNCHANGED <<toggles, pinLog, sleepLog, confirmed, unitVars, envHist>>

\* main.clean_up runs inside an except handler (flash's or monitor's), one
\* statement at a time.  First statement: GPIO.output(RELAY_PIN, GPIO.LOW).
clean_up_relay ==
    /\ pc = "cu_relay"
    /\ cleanups' = cleanups + 1
    /\ IF WriteOk
       THEN relay' = "LOW" /\ pc' = "cu_led" /\ UNCHANGED <<exitCode, cuFault>>
       ELSE Crash(1) /\ cuFault' = TRUE /\ UNCHANGED relay
    /\ UNCHANGED <<prog, backend, port, cuRet, led, interval, duration, timed, elapsed, caller>>
    /\ UNCHANGED <<interrupts, termAt, releases, intrBlocking, ranAfter, intrOutside>>
    /\ UNCHANGED <<ctlVars, sirenHist, ctlHist>>
    /\ lateWrite' = (lateWrite \/ port = "released")
    /\ UNCHANGED <<toggles, pinLog, sleepLog, confirmed, unitVars, envHist>>

\* clean_up: GPIO.output(LED_PIN, GPIO.LOW)
clean_up_led ==
    /\ pc = "cu_led"
    /\ IF WriteOk
       THEN led' = "LOW" /\ pc' = "cu_release" /\ UNCHANGED <<exitCode, cuFault>>
       ELSE Crash(1) /\ cuFault' = TRUE /\ UNCHANGED led
    /\ UNCHANGED <<prog, backend, port, cuRet, relay, interval, duration, timed, elapsed, caller>>
    /\ UNCHANGED <<interrupts, termAt, cleanups, releases, intrBlocking, ranAfter, intrOutside>>
    /\ UNCHANGED <<ctlVars, sirenHist, ctlHist>>
    /\ lateWrite' = (lateWrite \/ port = "released")
    /\ UNCHANGED <<toggles, pinLog, sleepLog, confirmed, unitVars, envHist>>

\* clean_up: GPIO.cleanup()
clean_up_release ==
    /\ pc = "cu_release"
    /\ port' = "released" /\ releases' = releases + 1
    /\ pc' = "cu_log"
    /\ UNCHANGED <<prog, backend, exitCode, cuRet>>
    /\ UNCHANGED <<interrupts, termAt, cleanups, cuFault, intrBlocking, ranAfter, intrOutside>>
    /\ UNCHANGED <<sirenVars, ctlVars, sirenHist, ctlHist>>
    /\ UNCHANGED <<obsVars, unitVars, envHist>>

\* clean_up: logger.debug, return; then the handler's break.  flash returns to
\* its caller as if it had completed; monitor returns and the script ends.
clean_up_return ==
    /\ pc = "cu_log"
    /\ IF cuRet = "flash"
       THEN ReturnFromFlash /\ UNCHANGED exitCode
       ELSE pc' = "returned" /\ exitCode' = 0 /\ UNCHANGED sirenHist
    /\ cuRet' = "none"
    /\ UNCHANGED <<prog, backend, port>>
    /\ UNCHANGED <<sirenVars, ctlVars, sigHist, ctlHist>>
    /\ UNCHANGED <<obsVars, unitVars, envHist>>

FlashTry == {"flash_high", "flash_sleep1", "flash_low", "flash_sleep2"}
MonitorTry == {"detect_open", "wait_event", "alarm_snooze", "alarm_high",
               "alarm_duration", "alarm_low"}
CleanUpPcs == {"cu_relay", "cu_led", "cu_release", "cu_log"}
\* the sleeps and the blocking read of the siren loop
Blocking == {"flash_sleep1", "flash_sleep2", "wait_event", "alarm_snooze", "alarm_duration"}
SirenLoop == FlashTry \cup MonitorTry \cup CleanUpPcs \cup {"arm_latch"}

\* A KeyboardInterrupt in the siren program.  flash's try catches it inside
\* flash (lines 41-51), monitor's try catches it in detect_mouse_movement and
\* set_alarm, and also when it escapes from flash's handler under
\* detect_mouse_movement; anywhere else nothing catches it.
siren_interrupt ==
    /\ prog = "siren" /\ Alive
    /\ interrupts < MaxInterrupts
    /\ interrupts' = interrupts + 1
    /\ intrBlocking' = (intrBlocking \/ pc \in Blocking)
    /\ IF pc \in FlashTry
       THEN pc' = "cu_relay" /\ cuRet' = "flash" /\ UNCHANGED <<exitCode, intrOutside>>
       ELSE IF pc \in MonitorTry \/ (pc \in CleanUpPcs /\ cuRet = "flash" /\ caller = "detect")
       THEN pc' = "cu_relay" /\ cuRet' = "monitor" /\ UNCHANGED <<exitCode, intrOutside>>
       ELSE Crash(130) /\ intrOutside' = TRUE /\ UNCHANGED cuRet
    /\ UNCHANGED <<prog, backend, port>>
    /\ UNCHANGED <<termAt, cleanups, releases, cuFault, ranAfter>>
    /\ UNCHANGED <<sirenVars, ctlVars, sirenHist, ctlHist>>
    /\ UNCHANGED <<obsVars, unitVars, envHist>>

\* SIGTERM in the siren program: main._handle_termination calls
\* common.handle_termination(clean_up): clean_up(), then sys.exit(0).  SystemExit
\* is not a KeyboardInterrupt, so no handler of the loops catches it.
siren_handle_termination ==
    /\ prog = "siren" /\ Alive
    /\ termAt = "none"
    /\ termAt' = pc
    /\ cleanups' = cleanups + 1
    /\ IF WriteOk
       THEN /\ relay' = "LOW" /\ led' = "LOW"
            /\ port' = "released" /\ releases' = releases + 1
            /\ pc' = "exited" /\ exitCode' = 0
            /\ UNCHANGED cuFault
       ELSE /\ Crash(1) /\ cuFault' = TRUE
            /\ UNCHANGED <<relay, led, port, releases>>
    /\ UNCHANGED <<prog, backend, cuRet, interval, duration, timed, elapsed, caller>>
    /\ UNCHANGED <<interrupts, intrBlocking, ranAfter, intrOutside>>
    /\ UNCHANGED <<ctlVars, sirenHist, ctlHist>>
    /\ lateWrite' = (lateWrite \/ port = "released")
    /\ UNCHANGED <<toggles, pinLog, sleepLog, confirmed, unitVars, envHist>>

\* ==================== service supervisor (controller.py) =================

\* Mutant of alarm_service_running: the shift is lost, the raw status is compared.
alarm_service_running_Raw(raw) == raw = 0

\* alarm_service_running: os.system('systemctl status alarm.service') >> 8 == 0
alarm_service_running(raw) == (raw \div (2 ^ 8)) = 0

\* what 'systemctl status' returns to os.system for the service's actual state
service_status == IF svcActive THEN STATUS_RUNNING ELSE STATUS_NOT_RUNNING

\* Mutant of Branch: the stop branch is lost, a LOW pin always idles.
Branch_NeverStops(pin, running) ==
    IF pin = "LOW" THEN "ctl_idle_sleep"
    ELSE IF ~running THEN "start_cmd"
    ELSE "ctl_steady_sleep"

\* Mutant of Branch: no hysteresis, every HIGH read starts the service again.
Branch_Restarts(pin, running) ==
    IF pin = "HIGH" THEN "start_cmd"
    ELSE IF running THEN "stop_cmd"
    ELSE "ctl_idle_sleep"

\* control(): the if/elif chain on (pin_state, service_running), as the
\* statement it leads to.
Branch(pin, running) ==
    IF pin = "LOW" /\ ~running THEN "ctl_idle_sleep"
    ELSE IF pin = "LOW" /\ running THEN "stop_cmd"
    ELSE IF pin = "HIGH" /\ ~running THEN "start_cmd"
    ELSE "ctl_steady_sleep"

ActionOf(branch) ==
    IF branch = "start_cmd" THEN "start" ELSE IF branch = "stop_cmd" THEN "stop" ELSE "none"

\* controller.set_up: configure the control pin as an input with pull-up.
ctl_set_up ==
    /\ pc = "ctl_set_up"
    /\ port' = "configured"
    /\ pc' = "ctl_query"
    /\ UNCHANGED <<prog, backend, exitCode, cuRet>>
    /\ UNCHANGED <<sirenVars, ctlVars, sigHist, sirenHist, ctlHist>>
    /\ UNCHANGED <<obsVars, unitVars, envHist>>

\* control(), before the loop: service_running = alarm_service_running()
ctl_query ==
    /\ pc = "ctl_query"
    /\ service_running' = alarm_service_running(service_status)
    /\ initRunning' = alarm_service_running(service_status)
    /\ pc' = "ctl_read"
    /\ UNCHANGED <<prog, backend, port, exitCode, cuRet, svcActive, pin_state>>
    /\ UNCHANGED <<reads, starts, stops, lowHigh, highLow, prevPin, firstPin, iter, assertFailed>>
    /\ UNCHANGED <<sirenVars, sigHist, sirenHist>>
    /\ UNCHANGED <<obsVars, unitVars, envHist>>

\* control(): pin_state = GPIO.input(ALARM_CONTROL_PIN) and the if/elif chain,
\* up to the sleep or the start_service / stop_service call it selects.
ctl_read ==
    /\ pc = "ctl_read"
    /\ reads < MaxReads
    /\ \E p \in Levels :
        /\ pin_state' = p
        /\ prevPin' = pin_state
        /\ firstPin' = IF firstPin = "NONE" THEN p ELSE firstPin
        /\ reads' = reads + 1
        /\ pc' = Branch(p, service_running)
        /\ starts' = IF Branch(p, service_running) = "start_cmd" THEN starts + 1 ELSE starts
        /\ stops' = IF Branch(p, service_running) = "stop_cmd" THEN stops + 1 ELSE stops
        /\ lowHigh' = IF pin_state = "LOW" /\ p = "HIGH" /\ ~service_running
                      THEN lowHigh + 1 ELSE lowHigh
        /\ highLow' = IF pin_state = "HIGH" /\ p = "LOW" /\ service_running
                      THEN highLow + 1 ELSE highLow
        /\ iter' = [state |-> service_running, pin |-> p, prev |-> pin_state,
                    action |-> ActionOf(Branch(p, service_running)),
                    sleep |-> 0, settle |-> 0, done |-> FALSE]
    /\ UNCHANGED <<procVars_but_pc, service_running, svcActive, initRunning, assertFailed>>
    /\ UNCHANGED <<sirenVars, sigHist, sirenHist>>
    /\ pinLog' = Append(pinLog, pin_state')
    /\ UNCHANGED <<toggles, lateWrite, sleepLog, confirmed, unitVars, envHist>>

\* control(): time.sleep(5), the idle branch
ctl_idle_sleep ==
    /\ pc = "ctl_idle_sleep"
    /\ iter' = [iter EXCEPT !.sleep = IDLE_SLEEP, !.done = TRUE]
    /\ pc' = "ctl_read"
    /\ UNCHANGED <<procVars_but_pc, sirenVars, ctlVars, sigHist, sirenHist>>
    /\ UNCHANGED <<reads, starts, stops, lowHigh, highLow, prevPin, initRunning, firstPin, assertFailed>>
    /\ sleepLog' = Append(sleepLog, IDLE_SLEEP)
    /\ UNCHANGED <<toggles, lateWrite, pinLog, confirmed, unitVars, envHist>>

\* Mutant of ctl_steady_sleep: the steady branch sleeps the idle interval.
ctl_steady_sleep_Idle ==
    /\ pc = "ctl_steady_sleep"
    /\ iter' = [iter EXCEPT !.sleep = IDLE_SLEEP, !.done = TRUE]
    /\ pc' = "ctl_read"
    /\ UNCHANGED <<procVars_but_pc, sirenVars, ctlVars, sigHist, sirenHist>>
    /\ UNCHANGED <<reads, starts, stops, lowHigh, highLow, prevPin, initRunning, firstPin, assertFailed>>
    /\ sleepLog' = Append(sleepLog, IDLE_SLEEP)
    /\ UNCHANGED <<toggles, lateWrite, pinLog, confirmed, unitVars, envHist>>

\* control(): time.sleep(0.25), the steady branch
ctl_steady_sleep ==
    /\ pc = "ctl_steady_sleep"
    /\ iter' = [iter EXCEPT !.sleep = STEADY_SLEEP, !.done = TRUE]
    /\ pc' = "ctl_read"
    /\ UNCHANGED <<procVars_but_pc, sirenVars, ctlVars, sigHist, sirenHist>>
    /\ UNCHANGED <<reads, starts, stops, lowHigh, highLow, prevPin, initRunning, firstPin, assertFailed>>
    /\ sleepLog' = Append(sleepLog, STEADY_SLEEP)
    /\ UNCHANGED <<toggles, lateWrite, pinLog, confirmed, unitVars, envHist>>

\* Mutant of start_cmd: the cached state takes the requested value at once.
start_cmd_Eager ==
    /\ pc = "start_cmd"
    /\ svcActive' \in BOOLEAN
    /\ service_running' = TRUE
    /\ pc' = "start_settle"
    /\ UNCHANGED <<procVars_but_pc, pin_state>>
    /\ UNCHANGED <<sirenVars, sigHist, sirenHist, ctlHist>>
    /\ UNCHANGED <<obsVars, unitVars, envHist>>

\* start_service: os.system('systemctl restart alarm.service'); the restart
\* may or may not bring the service up.
start_cmd ==
    /\ pc = "start_cmd"
    /\ svcActive' \in BOOLEAN
    /\ pc' = "start_settle"
    /\ UNCHANGED <<procVars_but_pc, service_running, pin_state>>
    /\ UNCHANGED <<sirenVars, sigHist, sirenHist, ctlHist>>
    /\ UNCHANGED <<obsVars, unitVars, envHist>>

\* start_service: time.sleep(1)
start_settle ==
    /\ pc = "start_settle"
    /\ iter' = [iter EXCEPT !.settle = SETTLE_SLEEP]
    /\ pc' = "start_verify"
    /\ UNCHANGED <<procVars_but_pc, sirenVars, ctlVars, sigHist, sirenHist>>
    /\ UNCHANGED <<reads, starts, stops, lowHigh, highLow, prevPin, initRunning, firstPin, assertFailed>>
    /\ UNCHANGED <<obsVars, unitVars, envHist>>

\* Mutant of start_verify: a failed verification is retried instead of raised.
start_verify_Retry ==
    /\ pc = "start_verify"
    /\ IF alarm_service_running(service_status)
       THEN /\ service_running' = TRUE
            /\ iter' = [iter EXCEPT !.done = TRUE]
            /\ confirmed' = "start"
            /\ pc' = "ctl_read"
            /\ UNCHANGED assertFailed
       ELSE /\ pc' = "start_cmd"
            /\ assertFailed' = TRUE
            /\ UNCHANGED <<service_running, iter, confirmed>>
    /\ UNCHANGED <<prog, backend, port, exitCode, cuRet, svcActive, pin_state>>
    /\ UNCHANGED <<reads, starts, stops, lowHigh, highLow, prevPin, initRunning, firstPin>>
    /\ UNCHANGED <<sirenVars, sigHist, sirenHist>>
    /\ UNCHANGED <<toggles, lateWrite, pinLog, sleepLog, unitVars, envHist>>

\* start_service: assert alarm_service_running(); back in control(),
\* service_running = True.  A failed assert is an AssertionError, which
\* control()'s except KeyboardInterrupt does not catch.
start_verify ==
    /\ pc = "start_verify"
    /\ IF alarm_service_running(service_status)
       THEN /\ service_running' = TRUE
            /\ iter' = [iter EXCEPT !.done = TRUE]
            /\ confirmed' = "start"
            /\ pc' = "ctl_read"
            /\ UNCHANGED <<exitCode, assertFailed>>
       ELSE /\ Crash(1)
            /\ assertFailed' = TRUE
            /\ UNCHANGED <<service_running, iter, confirmed>>
    /\ UNCHANGED <<prog, backend, port, cuRet, svcActive, pin_state>>
    /\ UNCHANGED <<reads, starts, stops, lowHigh, highLow, prevPin, initRunning, firstPin>>
    /\ UNCHANGED <<sirenVars, sigHist, sirenHist>>
    /\ UNCHANGED <<toggles, lateWrite, pinLog, sleepLog, unitVars, envHist>>

\* stop_service: os.system('systemctl stop alarm.service'); the stop may fail.
stop_cmd ==
    /\ pc = "stop_cmd"
    /\ svcActive' \in BOOLEAN
    /\ pc' = "stop_settle"
    /\ UNCHANGED <<procVars_but_pc, service_running, pin_state>>
    /\ UNCHANGED <<sirenVars, sigHist, sirenHist, ctlHist>>
    /\ UNCHANGED <<obsVars, unitVars, envHist>>

\* stop_service: time.sleep(1)
stop_settle ==
    /\ pc = "stop_settle"
    /\ iter' = [iter EXCEPT !.settle = SETTLE_SLEEP]
    /\ pc' = "stop_verify"
    /\ UNCHANGED <<procVars_but_pc, sirenVars, ctlVars, sigHist, sirenHist>>
    /\ UNCHANGED <<reads, starts, stops, lowHigh, highLow, prevPin, initRunning, firstPin, assertFailed>>
    /\ UNCHANGED <<obsVars, unitVars, envHist>>

\* stop_service: assert not alarm_service_running(); back in control(),
\* service_running = False.
stop_verify ==
    /\ pc = "stop_verify"
    /\ IF ~alarm_service_running(service_status)
       THEN /\ service_running' = FALSE
            /\ iter' = [iter EXCEPT !.done = TRUE]
            /\ confirmed' = "stop"
            /\ pc' = "ctl_read"
            /\ UNCHANGED <<exitCode, assertFailed>>
       ELSE /\ Crash(1)
            /\ assertFailed' = TRUE
            /\ UNCHANGED <<service_running, iter, confirmed>>
    /\ UNCHANGED <<prog, backend, port, cuRet, svcActive, pin_state>>
    /\ UNCHANGED <<reads, starts, stops, lowHigh, highLow, prevPin, initRunning, firstPin>>
    /\ UNCHANGED <<sirenVars, sigHist, sirenHist>>
    /\ UNCHANGED <<toggles, lateWrite, pinLog, sleepLog, unitVars, envHist>>

\* controller.clean_up in control()'s except handler: GPIO.cleanup()
ctl_clean_up ==
    /\ pc = "ctl_cu"
    /\ cleanups' = cleanups + 1
    /\ port' = "released" /\ releases' = releases + 1
    /\ pc' = "ctl_cu_log"
    /\ UNCHANGED <<prog, backend, exitCode, cuRet>>
    /\ UNCHANGED <<interrupts, termAt, cuFault, intrBlocking, ranAfter, intrOutside>>
    /\ UNCHANGED <<sirenVars, ctlVars, sirenHist, ctlHist>>
    /\ UNCHANGED <<obsVars, unitVars, envHist>>

\* Mutant of ctl_clean_up_return: the handler's break is lost, the loop goes on.
ctl_clean_up_return_NoBreak ==
    /\ pc = "ctl_cu_log"
    /\ pc' = "ctl_read"
    /\ cuRet' = "none"
    /\ UNCHANGED <<prog, backend, port, exitCode>>
    /\ UNCHANGED <<sirenVars, ctlVars, sigHist, sirenHist, ctlHist>>
    /\ UNCHANGED <<obsVars, unitVars, envHist>>

\* clean_up: logger.debug, return; the handler's break; control() returns and
\* the script ends.
ctl_clean_up_return ==
    /\ pc = "ctl_cu_log"
    /\ pc' = "returned" /\ exitCode' = 0
    /\ cuRet' = "none"
    /\ UNCHANGED <<prog, backend, port>>
    /\ UNCHANGED <<sirenVars, ctlVars, sigHist, sirenHist, ctlHist>>
    /\ UNCHANGED <<obsVars, unitVars, envHist>>

CtlTry == {"ctl_read", "ctl_idle_sleep", "ctl_steady_sleep", "start_cmd", "start_settle",
           "start_verify", "stop_cmd", "stop_settle", "stop_verify"}
CtlLoop == CtlTry \cup {"ctl_cu", "ctl_cu_log"}

\* A KeyboardInterrupt in the controller: caught by control()'s try (lines
\* 83-103) anywhere in an iteration, uncaught before the loop and in the handler.
ctl_interrupt ==
    /\ prog = "controller" /\ Alive
    /\ interrupts < MaxInterrupts
    /\ interrupts' = interrupts + 1
    /\ IF pc \in CtlTry
       THEN pc' = "ctl_cu" /\ cuRet' = "control" /\ UNCHANGED <<exitCode, intrOutside>>
       ELSE Crash(130) /\ intrOutside' = TRUE /\ UNCHANGED cuRet
    /\ UNCHANGED <<prog, backend, port>>
    /\ UNCHANGED <<termAt, cleanups, releases, cuFault, intrBlocking, ranAfter>>
    /\ UNCHANGED <<sirenVars, ctlVars, sirenHist, ctlHist>>
    /\ UNCHANGED <<obsVars, unitVars, envHist>>

\* SIGTERM in the controller: controller._handle_termination calls
\* common.handle_termination(clean_up): GPIO.cleanup(), then sys.exit(0).
ctl_handle_termination ==
    /\ prog = "controller" /\ Alive
    /\ termAt = "none"
    /\ termAt' = pc
    /\ cleanups' = cleanups + 1
    /\ port' = "released" /\ releases' = releases + 1
    /\ pc' = "exited" /\ exitCode' = 0
    /\ UNCHANGED <<prog, backend, cuRet>>
    /\ UNCHANGED <<interrupts, cuFault, intrBlocking, ranAfter, intrOutside>>
    /\ UNCHANGED <<sirenVars, ctlVars, sirenHist, ctlHist>>
    /\ UNCHANGED <<obsVars, unitVars, envHist>>

\* =========================== specification ===============================

Next ==
    \/ set_up \/ arm \/ flash_high \/ flash_sleep1 \/ flash_low \/ flash_sleep2
    \/ arm_latch \/ detect_open \/ wait_event
    \/ alarm_snooze \/ alarm_high \/ alarm_duration \/ alarm_low
    \/ clean_up_relay \/ clean_up_led \/ clean_up_release \/ clean_up_return
    \/ siren_interrupt \/ siren_handle_termination
    \/ ctl_set_up \/ ctl_query \/ ctl_read \/ ctl_idle_sleep \/ ctl_steady_sleep
    \/ start_cmd \/ start_settle \/ start_verify
    \/ stop_cmd \/ stop_settle \/ stop_verify
    \/ ctl_clean_up \/ ctl_clean_up_return
    \/ ctl_interrupt \/ ctl_handle_termination

Spec == Init /\ [][Next]_vars

\* ---- flash(interval, duration) on its own: called as arm calls it, on a
\* configured port, with a positive interval and duration, never interrupted;
\* the clock is `elapsed`, which only the two sleeps advance.
InitFlash ==
    /\ prog = "siren"
    /\ backend \in {"RPi", "Mock"}
    /\ pc = "flash_high"
    /\ port = "configured"
    /\ exitCode = -1
    /\ cuRet = "none"
    /\ relay = "LOW" /\ led = "LOW"
    /\ interval \in 1..MaxInterval /\ duration \in 1..MaxDuration
    /\ timed = TRUE /\ elapsed = 0 /\ caller = "arm"
    /\ service_running = FALSE /\ svcActive = FALSE /\ pin_state = "NONE"
    /\ interrupts = 0 /\ termAt = "none" /\ cleanups = 0 /\ releases = 0
    /\ cuFault = FALSE /\ intrBlocking = FALSE /\ ranAfter = FALSE /\ intrOutside = FALSE
    /\ phase = "arm" /\ prevPhase = "none" /\ ops = <<>> /\ det = NoDet
    /\ reads = 0 /\ starts = 0 /\ stops = 0 /\ lowHigh = 0 /\ highLow = 0
    /\ prevPin = "NONE" /\ initRunning = FALSE /\ firstPin = "NONE"
    /\ iter = NoIter /\ assertFailed = FALSE
    /\ toggles = 0 /\ lateWrite = FALSE /\ pinLog = <<>> /\ sleepLog = <<>>
    /\ confirmed = "none"
    /\ rawStatus = 0 /\ reported = "none"
    /\ externals = 0

NextFlash == flash_high \/ flash_sleep1 \/ flash_low \/ flash_sleep2

SpecFlash == InitFlash /\ [][NextFlash]_vars

\* ---- alarm_service_running on its own: os.system returned rawStatus, the
\* function answers.
InitStatus ==
    /\ prog = "controller"
    /\ backend = "RPi"
    /\ pc = "ctl_query"
    /\ port = "configured"
    /\ exitCode = -1
    /\ cuRet = "none"
    /\ relay = "LOW" /\ led = "LOW"
    /\ interval = 0 /\ duration = 0 /\ timed = FALSE /\ elapsed = 0 /\ caller = "none"
    /\ service_running = FALSE /\ svcActive = FALSE /\ pin_state = "NONE"
    /\ interrupts = 0 /\ termAt = "none" /\ cleanups = 0 /\ releases = 0
    /\ cuFault = FALSE /\ intrBlocking = FALSE /\ ranAfter = FALSE /\ intrOutside = FALSE
    /\ phase = "none" /\ prevPhase = "none" /\ ops = <<>> /\ det = NoDet
    /\ reads = 0 /\ starts = 0 /\ stops = 0 /\ lowHigh = 0 /\ highLow = 0
    /\ prevPin = "NONE" /\ initRunning = FALSE /\ firstPin = "NONE"
    /\ iter = NoIter /\ assertFailed = FALSE
    /\ toggles = 0 /\ lateWrite = FALSE /\ pinLog = <<>> /\ sleepLog = <<>>
    /\ confirmed = "none"
    /\ rawStatus \in 0..MaxRawStatus /\ reported = "none"
    /\ externals = 0

\* alarm_service_running(): return os.system(...) >> 8 == 0
status_query ==
    /\ reported = "none"
    /\ reported' = IF alarm_service_running(rawStatus) THEN "running" ELSE "stopped"
    /\ UNCHANGED <<procVars, sirenVars, ctlVars, sigHist, sirenHist, ctlHist, obsVars, rawStatus, envHist>>

NextStatus == status_query

SpecStatus == InitStatus /\ [][NextStatus]_vars

\* ---- the controller left running: no KeyboardInterrupt, no SIGTERM, the
\* control pin held at one level, the alarm service free to change state on its
\* own.  The loop of control() never ends here, so its steps are taken without
\* the read counter and the logs of the bounded runs.
InitLive ==
    /\ prog = "controller"
    /\ backend \in {"RPi", "Mock"}
    /\ pc = "ctl_set_up"
    /\ port = "unconfigured"
    /\ exitCode = -1
    /\ cuRet = "none"
    /\ relay = "LOW" /\ led = "LOW"
    /\ interval = 0 /\ duration = 0 /\ timed = FALSE /\ elapsed = 0 /\ caller = "none"
    /\ service_running = FALSE /\ svcActive \in BOOLEAN /\ pin_state = "NONE"
    /\ interrupts = 0 /\ termAt = "none" /\ cleanups = 0 /\ releases = 0
    /\ cuFault = FALSE /\ intrBlocking = FALSE /\ ranAfter = FALSE /\ intrOutside = FALSE
    /\ phase = "none" /\ prevPhase = "none" /\ ops = <<>> /\ det = NoDet
    /\ reads = 0 /\ starts = 0 /\ stops = 0 /\ lowHigh = 0 /\ highLow = 0
    /\ prevPin = "NONE" /\ initRunning = FALSE /\ firstPin = "NONE"
    /\ iter = NoIter /\ assertFailed = FALSE
    /\ toggles = 0 /\ lateWrite = FALSE /\ pinLog = <<>> /\ sleepLog = <<>>
    /\ confirmed = "none"
    /\ rawStatus = 0 /\ reported = "none"
    /\ externals = 0

\* control(): pin_state = GPIO.input(ALARM_CONTROL_PIN) and the if/elif chain;
\* the pin reads the level it read the first time.
poll_read ==
    /\ pc = "ctl_read"
    /\ \E p \in Levels :
        /\ firstPin \in {"NONE", p}
        /\ pin_state' = p
        /\ prevPin' = pin_state
        /\ firstPin' = p
        /\ pc' = Branch(p, service_running)
        /\ iter' = [state |-> service_running, pin |-> p, prev |-> pin_state,
                    action |-> ActionOf(Branch(p, service_running)),
                    sleep |-> 0, settle |-> 0, done |-> FALSE]
    /\ UNCHANGED <<procVars_but_pc, service_running, svcActive>>
    /\ UNCHANGED <<reads, starts, stops, lowHigh, highLow, initRunning, assertFailed>>
    /\ UNCHANGED <<sirenVars, sigHist, sirenHist, obsVars, unitVars, envHist>>

\* control(): time.sleep(5), the idle branch
poll_idle_sleep ==
    /\ pc = "ctl_idle_sleep"
    /\ iter' = [iter EXCEPT !.sleep = IDLE_SLEEP, !.done = TRUE]
    /\ pc' = "ctl_read"
    /\ UNCHANGED <<procVars_but_pc, sirenVars, ctlVars, sigHist, sirenHist>>
    /\ UNCHANGED <<reads, starts, stops, lowHigh, highLow, prevPin, initRunning, firstPin, assertFailed>>
    /\ UNCHANGED <<obsVars, unitVars, envHist>>

\* control(): time.sleep(0.25), the steady branch
poll_steady_sleep ==
    /\ pc = "ctl_steady_sleep"
    /\ iter' = [iter EXCEPT !.sleep = STEADY_SLEEP, !.done = TRUE]
    /\ pc' = "ctl_read"
    /\ UNCHANGED <<procVars_but_pc, sirenVars, ctlVars, sigHist, sirenHist>>
    /\ UNCHANGED <<reads, starts, stops, lowHigh, highLow, prevPin, initRunning, firstPin, assertFailed>>
    /\ UNCHANGED <<obsVars, unitVars, envHist>>

\* The alarm service changes state on its own: alarm.service runs main.py,
\* which ends when monitor returns or an exception escapes; systemd or an
\* operator may start it again.
svc_external ==
    /\ prog = "controller" /\ Alive
    /\ externals < MaxExternal
    /\ externals' = externals + 1
    /\ svcActive' = ~svcActive
    /\ UNCHANGED <<procVars, sirenVars, service_running, pin_state>>
    /\ UNCHANGED <<sigHist, sirenHist, ctlHist, obsVars, unitVars>>

\* the steps of the controller process itself
CtlStep ==
    \/ ctl_set_up \/ ctl_query \/ poll_read \/ poll_idle_sleep \/ poll_steady_sleep
    \/ start_cmd \/ start_settle \/ start_verify
    \/ stop_cmd \/ stop_settle \/ stop_verify

NextLive == CtlStep \/ svc_external

\* The controller is one running process whose sleeps and system calls return:
\* a step of it that stays possible is eventually taken.
SpecLive == InitLive /\ [][NextLive]_vars /\ WF_vars(CtlStep)

\* ============================== claims ===================================

Over == pc \in {"returned", "exited", "crashed"}

\* C1: in the siren program, one keyboard interrupt delivered at a blocking
\* point (a sleep of flash, the wait for a motion event, a sleep of set_alarm)
\* ends the loop: no flash, wait or set_alarm step runs after it, and the run
\* ends with the relay LOW, the indicator LOW and the port released.
C1_InterruptEndsSirenLoop ==
    (prog = "siren" /\ intrBlocking /\ interrupts = 1 /\ termAt = "none") =>
        /\ ~ranAfter
        /\ (Over => relay = "LOW" /\ led = "LOW" /\ port = "released")

\* ---- C2
RowAction(state, pin) ==
    IF state /\ pin = "LOW" THEN "stop"
    ELSE IF ~state /\ pin = "HIGH" THEN "start"
    ELSE "none"
RowSleep(state, pin) ==
    IF ~state /\ pin = "LOW" THEN IDLE_SLEEP
    ELSE IF state /\ pin = "HIGH" THEN STEADY_SLEEP
    ELSE 0
RowNext(state, pin) == pin = "HIGH"

\* C2: every iteration of control follows the table on (cached state, pin
\* reading): STOPPED+LOW no action, sleep 5, STOPPED; RUNNING+LOW stop_service,
\* no poll sleep, STOPPED; STOPPED+HIGH start_service, no poll sleep, RUNNING;
\* RUNNING+HIGH no action, sleep 0.25, RUNNING.  The action and the sleep are
\* those of the row from the moment the branch is taken, the next state is the
\* row's once the iteration has completed.
C2_ControlTable ==
    (prog = "controller" /\ iter.pin /= "NONE") =>
        /\ iter.action = RowAction(iter.state, iter.pin)
        /\ iter.sleep \in {0, RowSleep(iter.state, iter.pin)}
        /\ (iter.sleep = IDLE_SLEEP => ~iter.state /\ iter.pin = "LOW")
        /\ (iter.sleep = STEADY_SLEEP => iter.state /\ iter.pin = "HIGH")
        /\ (iter.settle /= 0 => iter.action /= "none")
        /\ (iter.done =>
              /\ iter.sleep = RowSleep(iter.state, iter.pin)
              /\ service_running = RowNext(iter.state, iter.pin))
        /\ (~iter.done => service_running = iter.state)

\* C2 witness: a RUNNING+LOW iteration has completed after a STOPPED+HIGH one.
C2_Witness ==
    /\ prog = "controller" /\ iter.done /\ iter.state /\ iter.pin = "LOW"
    /\ iter.action = "stop" /\ starts = 1 /\ ~service_running

\* ---- C3
FirstStart == IF firstPin = "HIGH" /\ ~initRunning THEN 1 ELSE 0
FirstStop == IF firstPin = "LOW" /\ initRunning THEN 1 ELSE 0

\* C3 as claimed: the number of start_service invocations equals the number of
\* LOW->HIGH transitions between consecutive pin readings seen while STOPPED,
\* the number of stop_service invocations that of HIGH->LOW transitions seen
\* while RUNNING, and a repeated level causes no action.
C3_Original ==
    prog = "controller" =>
        /\ starts = lowHigh
        /\ stops = highLow
        /\ (iter.prev = iter.pin => iter.action = "none")

\* C3 amended: as claimed, plus one start when the very first reading is HIGH
\* while the service was STOPPED at startup, plus one stop when the very first
\* reading is LOW while it was RUNNING at startup (a mismatch that no
\* preceding reading announces).
C3_ActionsMatchTransitions ==
    prog = "controller" =>
        /\ starts = lowHigh + FirstStart
        /\ stops = highLow + FirstStop
        /\ (iter.prev = iter.pin => iter.action = "none")

\* C3 witness: a start on the first reading, a stop, and a start on a
\* LOW->HIGH transition.
C3_Witness ==
    /\ prog = "controller" /\ starts = 2 /\ stops = 1 /\ lowHigh = 1 /\ highLow = 1
    /\ iter.done

\* C4: a failed verification after the settle sleep is fatal: the
\* AssertionError leaves control, the cached state keeps the value it had
\* before the action, and no pin read, start_service or stop_service follows.
C4_AssertionFatal ==
    /\ [](assertFailed =>
            /\ pc = "crashed" /\ exitCode = 1
            /\ iter.settle = SETTLE_SLEEP /\ ~iter.done
            /\ service_running = iter.state
            /\ cleanups = 0)
    /\ [][assertFailed => UNCHANGED <<reads, starts, stops, service_running, pin_state>>]_vars

\* C4 witness: start_service's verification failed.
C4_Witness == assertFailed /\ iter.action = "start" /\ ~svcActive /\ starts = 1

\* ---- C5
Uninterrupted == prog = "siren" /\ interrupts = 0 /\ termAt = "none"

\* C5 as claimed: in an uninterrupted run every wait for motion is preceded by
\* an arm phase.
C5_Original ==
    (Uninterrupted /\ phase \in {"wait", "degraded"}) => prevPhase = "arm"

\* C5 amended: the arm phase (fast flash at 0.25s for 30s, then the indicator
\* latched HIGH) runs once, at startup, before the first wait for motion; the
\* loop then repeats wait, trigger, wait, trigger, ... without arming again,
\* the indicator staying HIGH.
C5_ArmOnceThenWaitTrigger ==
    Uninterrupted =>
        /\ (phase = "arm" =>
              /\ prevPhase = "none" /\ ops = <<>>
              /\ interval = FAST_FLASH_TIME /\ duration = ARM_TIME /\ timed
              /\ (pc = "arm_latch" => elapsed >= ARM_TIME))
        /\ (phase \in {"wait", "degraded"} =>
              /\ prevPhase \in {"arm", "trigger"}
              /\ (prevPhase = "arm" <=> ops = <<>>)
              /\ (prevPhase = "trigger" => Len(ops) = 4))
        /\ (phase = "wait" => led = "HIGH")
        /\ (phase = "trigger" => prevPhase = "wait" /\ led = "HIGH")

\* C5 witness: a second wait for motion, entered straight from a trigger.
C5_Witness ==
    Uninterrupted /\ phase = "wait" /\ prevPhase = "trigger" /\ pc = "wait_event"

\* C6: a run ended by keyboard interrupts that hit inside the loops and/or a
\* SIGTERM delivered while in a loop invokes clean_up, and with it
\* GPIO.cleanup(), exactly once.
C6_CleanupExactlyOnce ==
    (/\ Over
     /\ ~intrOutside
     /\ termAt \in SirenLoop \cup CtlLoop \cup {"none"}
     /\ (interrupts > 0 \/ termAt /= "none")
     /\ ~assertFailed)
    => cleanups = 1 /\ releases = 1

\* C7: a second invocation of main.clean_up does not raise, and leaves the
\* relay LOW, the indicator LOW and the port released like the first.
C7_CleanUpIdempotent ==
    (prog = "siren" /\ cleanups >= 2) =>
        /\ ~cuFault
        /\ (pc \in {"returned", "exited"} =>
              relay = "LOW" /\ led = "LOW" /\ port = "released")

\* C8: a SIGTERM delivered while either loop is in any state runs clean_up
\* and then exits the process with status 0; nothing runs after the handler.
C8_TerminationExitsZero ==
    termAt \in SirenLoop \cup CtlLoop =>
        pc = "exited" /\ exitCode = 0 /\ port = "released"

\* ---- C9
TriggerOps ==
    <<Sleep(ALARM_SNOOZE), Write("RELAY", "HIGH"), Sleep(ALARM_DURATION), Write("RELAY", "LOW")>>

\* C9: a trigger does, in order, a 1s sleep, one write of HIGH to the relay, a
\* 5s sleep and one write of LOW to the relay, writes no other pin, and leaves
\* the relay LOW when it returns.
C9_TriggerSequence ==
    prog = "siren" =>
        /\ Len(ops) <= 4
        /\ ops = SubSeq(TriggerOps, 1, Len(ops))
        /\ (pc \in {"alarm_duration", "alarm_low"} => relay = "HIGH")
        /\ (Len(ops) = 4 /\ pc = "detect_open" => relay = "LOW")

\* C9 witness: an uninterrupted trigger has just returned.
C9_Witness ==
    Uninterrupted /\ Len(ops) = 4 /\ pc = "detect_open" /\ relay = "LOW"

\* C10: with the device path absent, detect_mouse_movement does not raise, runs
\* flash with the slow interval and no duration, and returns when flash
\* returns without having waited for or consumed a motion event.
C10_AbsentDeviceHeartbeat ==
    (prog = "siren" /\ det.absent) =>
        /\ det.flashed /\ det.fInterval = SLOW_FLASH_TIME /\ ~det.fTimed
        /\ ~det.waited
        /\ (phase = "degraded" =>
              /\ interval = SLOW_FLASH_TIME /\ ~timed /\ caller = "detect"
              /\ pc \in FlashTry \cup CleanUpPcs \cup {"exited", "crashed", "returned"}
              /\ ~det.returned)
        /\ (det.returned => phase = "trigger" /\ prevPhase = "degraded" /\ interrupts > 0)

\* C10 witness: the slow flash was interrupted and detect_mouse_movement returned.
C10_Witness ==
    /\ prog = "siren" /\ det.absent /\ det.returned /\ ~det.waited
    /\ pc = "alarm_snooze" /\ prevPhase = "degraded"

\* C11: with the device present, detect_mouse_movement consumes the events in
\* order, ignores every event of value 0 and returns exactly at the first
\* event of non-zero value: while it waits every consumed event is 0, and when
\* it has returned the last consumed event is the only non-zero one.
C11_FirstNonZeroEvent ==
    (prog = "siren" /\ ~det.absent) =>
        /\ (pc = "wait_event" => ~det.returned)
        /\ (~det.returned => \A i \in 1..Len(det.events) : det.events[i] = 0)
        /\ (det.returned =>
              /\ Len(det.events) >= 1
              /\ det.events[Len(det.events)] /= 0
              /\ \A i \in 1..(Len(det.events) - 1) : det.events[i] = 0)
        /\ (det.waited <=> det.events /= <<>>)

\* C11 witness: two zero events were ignored and a negative one ended the wait.
C11_Witness ==
    /\ prog = "siren" /\ det.returned /\ det.events = <<0, 0, -1>>
    /\ pc = "alarm_snooze"

\* ---- C12
Rep(x, n) == [i \in 1..n |-> x]
LevelOf(running) == IF running THEN "HIGH" ELSE "LOW"
IntervalOf(running) == IF running THEN STEADY_SLEEP ELSE IDLE_SLEEP
\* control() read m times the level of its initial state, then n >= 1 times
\* the other level, and a KeyboardInterrupt hit the next read.
Scenario(m, n) ==
    /\ prog = "controller" /\ pc = "returned"
    /\ interrupts = 1 /\ ~intrOutside /\ termAt = "none"
    /\ iter.done
    /\ pinLog = Rep(LevelOf(initRunning), m) \o Rep(LevelOf(~initRunning), n)

\* C12: in that scenario exactly one action was invoked (start_service if the
\* service was STOPPED at startup, stop_service if RUNNING), the poll sleeps
\* are m of the initial state's interval then n-1 of the other interval, and
\* clean_up ran exactly once.
C12_OneActionScenario ==
    \A m \in 0..Len(pinLog), n \in 1..Len(pinLog) :
        Scenario(m, n) =>
            /\ starts = (IF initRunning THEN 0 ELSE 1)
            /\ stops = (IF initRunning THEN 1 ELSE 0)
            /\ sleepLog = Rep(IntervalOf(initRunning), m) \o Rep(IntervalOf(~initRunning), n - 1)
            /\ cleanups = 1 /\ releases = 1

\* C12 witness: STOPPED at startup, reads LOW, LOW, HIGH, HIGH, then the interrupt.
C12_Witness ==
    /\ Scenario(2, 2) /\ ~initRunning
    /\ sleepLog = <<IDLE_SLEEP, IDLE_SLEEP, STEADY_SLEEP>>

\* C13: one KeyboardInterrupt raised anywhere inside an iteration of control
\* (pin read, poll sleep, settle sleep, verification) makes the loop invoke
\* clean_up once and return normally, without re-raising; after it there is no
\* pin read and no start_service or stop_service invocation.
C13_InterruptEndsControl ==
    /\ []((prog = "controller" /\ interrupts = 1 /\ ~intrOutside /\ termAt = "none") =>
            /\ pc \in {"ctl_cu", "ctl_cu_log", "returned"}
            /\ cleanups = (IF pc = "ctl_cu" THEN 0 ELSE 1)
            /\ releases = cleanups
            /\ (pc = "returned" => exitCode = 0)
            /\ (pc /= "returned" => Alive)
            /\ ~assertFailed)
    /\ [][(prog = "controller" /\ interrupts >= 1)
            => UNCHANGED <<reads, starts, stops, pinLog, sleepLog, service_running>>]_vars

\* C13 witness: the interrupt hit start_service after its settle sleep, and
\* control has returned.
C13_Witness ==
    /\ prog = "controller" /\ interrupts = 1 /\ termAt = "none" /\ pc = "returned"
    /\ iter.action = "start" /\ iter.settle = SETTLE_SLEEP /\ ~iter.done
    /\ cleanups = 1

\* C14: the cached service state of control() changes only in the startup
\* query or right after a start_service / stop_service call whose verification
\* passed; once queried it equals the result of the last confirmed action (the
\* startup value while none was confirmed), and while an action is issued but
\* not confirmed it keeps the value opposite to the requested one.
Cached == IF confirmed = "none" THEN initRunning ELSE confirmed = "start"

C14_CachedStateConfirmed ==
    /\ []((prog = "controller" /\ pc \notin {"ctl_set_up", "ctl_query"}) =>
            /\ service_running = Cached
            /\ (iter.action = "start" /\ ~iter.done => ~service_running)
            /\ (iter.action = "stop" /\ ~iter.done => service_running))
    /\ [][service_running' /= service_running =>
            \/ pc = "ctl_query"
            \/ /\ pc = "start_verify" /\ alarm_service_running(service_status)
               /\ service_running' /\ confirmed' = "start"
            \/ /\ pc = "stop_verify" /\ ~alarm_service_running(service_status)
               /\ ~service_running' /\ confirmed' = "stop"]_vars

\* C14 witness: a start and then a stop were confirmed, and the next start
\* failed its verification: the cache still says "not running".
C14_Witness ==
    /\ prog = "controller" /\ ~initRunning /\ confirmed = "stop"
    /\ iter.action = "start" /\ ~iter.done /\ assertFailed
    /\ ~service_running /\ ~svcActive

\* C15: flash called with no duration (the slow flash of the degraded mode)
\* never returns on its own; a keyboard interrupt makes it invoke clean_up
\* exactly once, and the interruption is not swallowed: flash does not return
\* to detect_mouse_movement and monitor as if it had completed, so no
\* set_alarm step and no further pin write follows.
C15_UntimedFlashNotSwallowed ==
    (prog = "siren" /\ det.absent /\ termAt = "none" /\ interrupts <= 1 /\ cleanups <= 1) =>
        /\ ~det.returned
        /\ pc \in FlashTry \cup CleanUpPcs \cup {"returned", "exited", "crashed"}
        /\ (interrupts = 0 => pc \in FlashTry /\ cleanups = 0)
        /\ (pc \in CleanUpPcs => cuRet = "flash")

\* C16: flash(interval, duration) with positive integers, never interrupted,
\* on a clock that only its sleeps advance: it returns after floor(D / (2*I))
\* or floor(D / (2*I)) + 1 full HIGH-then-LOW toggles (the least count whose
\* 2*I*count reaches D), the elapsed-time test is made only after the second
\* sleep of a toggle, and the last indicator write is LOW.
C16_TimedFlashToggles ==
    /\ [](pc = "arm_latch" =>
            /\ toggles \in {duration \div (2 * interval), duration \div (2 * interval) + 1}
            /\ elapsed = 2 * interval * toggles
            /\ elapsed >= duration /\ elapsed - 2 * interval < duration
            /\ led = "LOW")
    /\ [](pc \in FlashTry =>
            elapsed = 2 * interval * toggles
                      + (IF pc = "flash_low" THEN interval ELSE 0)
                      - (IF pc = "flash_sleep2" THEN interval ELSE 0))
    /\ [][pc' = "arm_latch" => pc = "flash_sleep2" /\ led = "LOW" /\ toggles' = toggles]_vars

\* C16 witness: flash(2, 9) returned after floor(9 / 4) + 1 = 3 toggles.
C16_Witness ==
    /\ pc = "arm_latch" /\ interval = 2 /\ duration = 9 /\ toggles = 3 /\ led = "LOW"

\* C17: arm runs flash(0.25s, 30s); when the flash has run its full duration
\* arm's last pin write sets the indicator HIGH, and from then on the indicator
\* is HIGH in every state in which the siren loop waits for a motion event or
\* executes a trigger, as long as no cleanup has begun.
C17_IndicatorLatched ==
    /\ []((prog = "siren" /\ cleanups = 0 /\ termAt = "none") =>
            /\ (caller = "arm" /\ pc \in FlashTry =>
                  interval = FAST_FLASH_TIME /\ duration = ARM_TIME /\ timed)
            /\ (pc = "arm_latch" => elapsed >= ARM_TIME /\ toggles = ARM_TIME \div (2 * FAST_FLASH_TIME))
            /\ (pc \in {"wait_event", "alarm_snooze", "alarm_high", "alarm_duration", "alarm_low"} =>
                  led = "HIGH")
            /\ (pc = "detect_open" => led = "HIGH"))
    /\ [][(/\ prog = "siren" /\ cleanups = 0 /\ termAt = "none" /\ pc = "arm_latch"
            /\ interrupts' = interrupts /\ termAt' = termAt) =>
            led' = "HIGH" /\ pc' = "detect_open"]_vars

\* C17 witness: the siren is sounding in a trigger, no cleanup so far, the
\* indicator still HIGH since arm.
C17_Witness ==
    /\ prog = "siren" /\ cleanups = 0 /\ termAt = "none"
    /\ pc = "alarm_duration" /\ relay = "HIGH" /\ led = "HIGH"
    /\ elapsed >= ARM_TIME

\* C18: for every raw 16-bit status s returned by the status command,
\* alarm_service_running answers "running" exactly when the exit code, the
\* high byte of s, is 0, that is when s is in 0..255; so 1..255 are reported
\* as running and 256 as not running.
C18_ExitCodeZeroIsRunning ==
    reported /= "none" =>
        /\ (reported = "running" <=> rawStatus < 256)
        /\ (rawStatus \in 1..255 => reported = "running")
        /\ (rawStatus = 256 => reported = "stopped")

\* C18 witness: raw status 255 (exit code 0, low byte set) was reported as running.
C18_Witness == rawStatus = 255 /\ reported = "running"

\* C19: in the siren program the relay is driven HIGH only after a motion
\* event with a non-zero value was received since the previous trigger; when
\* the motion device is absent the relay is never driven HIGH, also after a
\* keyboard interrupt ended the slow flash (one interrupt, no termination
\* request).
C19_RelayOnlyAfterMotion ==
    (prog = "siren" /\ interrupts <= 1 /\ termAt = "none" /\ relay = "HIGH") =>
        /\ ~det.absent
        /\ det.events /= <<>>
        /\ det.events[Len(det.events)] /= 0

\* C20: in the siren program, once clean_up has released the port, no write
\* to the relay or indicator pin is performed again; stated for the runs with
\* one keyboard interrupt or one termination request.
C20_NoWriteAfterRelease ==
    (prog = "siren" /\ interrupts + (IF termAt = "none" THEN 0 ELSE 1) <= 1) => ~lateWrite

\* C21: the controller left running without interruption, its start/stop
\* verifications succeeding, the control pin held at one level: eventually the
\* actual state of the alarm service matches the level (running for HIGH,
\* stopped for LOW) and stays matched, also when the service changed state on
\* its own after the controller cached its state.
Matched == firstPin /= "NONE" /\ svcActive = (firstPin = "HIGH")

C21_ServiceFollowsPin ==
    (<>assertFailed) \/ <>[]Matched

====
